---- MODULE Spec2Model ----
(***************************************************************************)
(* Model of src/config.rs: Config::load(), Config::load_from(),            *)
(* Config::read_file(), the Error conversions and the serde-derived        *)
(* deserialization of Config / Dpi / Font / FontOffset.                    *)
(*                                                                         *)
(* The environment (the HOME variable, the two candidate files, the build  *)
(* target) is fixed in Init and one call of Config::load() is stepped      *)
(* through: env::var, load_from(path), the match on its result and, on     *)
(* Error::NotFound, load_from(alt_path).  Every fs::File::open and         *)
(* read_to_string the call performs is appended to fs_log.                 *)
(*                                                                         *)
(* A YAML document is modelled as the mapping it denotes: a function whose *)
(* domain is the set of keys present.  f32 values are modelled by the      *)
(* integers they equal (96.0 as 96, -7.0 as -7).                           *)
(***************************************************************************)
EXTENDS Integers, Sequences, FiniteSets, TLC

\* A present section of a generated document lacks at most this many of its
\* required keys.
MaxMissing == 1

----------------------------------------------------------------------------
\* Environment

HomeDir == "/home/user"

\* env::var("HOME"): the value, or one of the two env::VarError variants.
HomeStates ==
    { [set |-> TRUE,  value |-> HomeDir, err |-> "None"],
      [set |-> FALSE, value |-> "",      err |-> "NotPresent"],
      [set |-> FALSE, value |-> "",      err |-> "NotUnicode"] }

TargetOs == {"linux", "macos"}

\* PathBuf::from(&home) followed by push(".config"), push("alacritty.yml")
PrimaryPath(h) == <<h, ".config", "alacritty.yml">>

\* PathBuf::from(&home) followed by push(".alacritty.yml")
FallbackPath(h) == <<h, ".alacritty.yml">>

Paths == {PrimaryPath(HomeDir), FallbackPath(HomeDir)}

NoPath == <<>>

\* io::ErrorKind values fs::File::open can fail with on a path that exists
OpenErrKinds == {"PermissionDenied", "Other"}

\* io::ErrorKind values read_to_string can fail with (InvalidData: not UTF-8)
ReadErrKinds == {"InvalidData", "Interrupted"}

----------------------------------------------------------------------------
\* Documents

Restrict(f, D) == [k \in D |-> f[k]]

\* The values a complete user-written file supplies; all differ from the
\* defaults of either platform and from each other.
SuppliedOffset == [x |-> 1, y |-> -3]

SuppliedFont ==
    [family |-> "Hack", style |-> "Bold", size |-> 14, offset |-> SuppliedOffset]

SuppliedDpi == [x |-> 110, y |-> 120]

DpiKeys == {"x", "y"}

FontOffsetKeys == {"x", "y"}

FontKeys == {"family", "style", "size", "offset"}

\* dpi sections: the complete one with up to MaxMissing keys removed
DpiSections ==
    { Restrict(SuppliedDpi, DpiKeys \ m) :
        m \in { s \in SUBSET DpiKeys : Cardinality(s) <= MaxMissing } }

\* font sections: keys removed from the font mapping and from its offset
\* mapping, up to MaxMissing in total
FontSections ==
    { [k \in FontKeys \ m |->
          IF k = "offset" THEN Restrict(SuppliedOffset, FontOffsetKeys \ mo)
                          ELSE SuppliedFont[k]] :
        <<m, mo>> \in
          { p \in (SUBSET FontKeys) \X (SUBSET FontOffsetKeys) :
              /\ Cardinality(p[1]) + Cardinality(p[2]) <= MaxMissing
              /\ ("offset" \in p[1] => p[2] = {}) } }

SectionKeys == {"dpi", "font", "render_timer"}

\* All mappings over a subset of the three top-level keys
Mappings ==
    UNION { { [k \in D |-> CASE k = "dpi" -> d
                             [] k = "font" -> f
                             [] k = "render_timer" -> r] :
                d \in DpiSections, f \in FontSections, r \in {"true", "false"} } :
            D \in SUBSET SectionKeys }

EmptyMapping == [k \in {} |-> 0]

\* File contents: text that is not a YAML mapping, or a mapping
Contents ==
    { [valid_yaml |-> FALSE, map |-> EmptyMapping] }
      \cup { [valid_yaml |-> TRUE, map |-> m] : m \in Mappings }

NoContents == [valid_yaml |-> FALSE, map |-> EmptyMapping]

\* What a candidate path is on disk
FileStates ==
    { [kind |-> "Absent", err |-> "NotFound", contents |-> NoContents] }
      \cup { [kind |-> "Unopenable", err |-> k, contents |-> NoContents] :
               k \in OpenErrKinds }
      \cup { [kind |-> "Unreadable", err |-> k, contents |-> NoContents] :
               k \in ReadErrKinds }
      \cup { [kind |-> "File", err |-> "None", contents |-> c] : c \in Contents }

----------------------------------------------------------------------------
\* Error and Result

\* enum Error { NotFound, ReadingEnvHome(VarError), Io(io::Error), Yaml(..) }
NotFound == [tag |-> "NotFound", cause |-> "None"]

ReadingEnvHome(e) == [tag |-> "ReadingEnvHome", cause |-> e]

Io(e) == [tag |-> "Io", cause |-> e]

Yaml(e) == [tag |-> "Yaml", cause |-> e]

NoError == [tag |-> "None", cause |-> "None"]

NoValue == [none |-> TRUE]

Ok(v) == [ok |-> TRUE, val |-> v, err |-> NoError]

Err(e) == [ok |-> FALSE, val |-> NoValue, err |-> e]

\* Error::cause(): None for NotFound, Some(wrapped error) otherwise
cause(e) == IF e.tag = "NotFound" THEN "None" ELSE e.cause

\* impl From<env::VarError> for Error
FromVarError(val) == ReadingEnvHome(val)

\* Variant of FromIoError without the NotFound translation
FromIoError_AlwaysIo(val) == Io(val)

\* Variant of FromIoError that reports undecodable content as a Yaml error
FromIoError_InvalidDataIsYaml(val) ==
    IF val = "NotFound" THEN NotFound
    ELSE IF val = "InvalidData" THEN Yaml(val)
    ELSE Io(val)

\* impl From<io::Error> for Error
FromIoError(val) == IF val = "NotFound" THEN NotFound ELSE Io(val)

\* impl From<serde_yaml::Error> for Error
FromYamlError(val) == Yaml(val)

----------------------------------------------------------------------------
\* Defaults

\* impl Default for Dpi
DefaultDpi == [x |-> 96, y |-> 96]

\* impl Default for Font, #[cfg(target_os = "macos")]
DefaultFontMacos ==
    [family |-> "Menlo", style |-> "Regular", size |-> 11,
     offset |-> [x |-> 0, y |-> 0]]

\* impl Default for Font, #[cfg(target_os = "linux")]
DefaultFontLinux ==
    [family |-> "DejaVu Sans Mono", style |-> "Book", size |-> 11,
     offset |-> [x |-> 2, y |-> -7]]

\* Variant of DefaultFont with the two cfg attributes exchanged
DefaultFont_Swapped(os) ==
    IF os = "macos" THEN DefaultFontLinux ELSE DefaultFontMacos

DefaultFont(os) == IF os = "macos" THEN DefaultFontMacos ELSE DefaultFontLinux

\* bool::default()
DefaultRenderTimer == FALSE

----------------------------------------------------------------------------
\* Deserialization (#[derive(Deserialize)]): a struct field without
\* #[serde(default)] that is missing from the mapping is an error.

\* struct Dpi { x: f32, y: f32 }
DeserializeDpi(m) ==
    IF DpiKeys \subseteq DOMAIN m
    THEN Ok([x |-> m.x, y |-> m.y])
    ELSE Err("MissingField")

\* struct FontOffset { x: f32, y: f32 }
DeserializeFontOffset(m) ==
    IF FontOffsetKeys \subseteq DOMAIN m
    THEN Ok([x |-> m.x, y |-> m.y])
    ELSE Err("MissingField")

\* Variant of DeserializeFont with #[serde(default)] on every field
DeserializeFont_FieldDefaults(m) ==
    LET dflt == DefaultFontLinux
        off == IF "offset" \in DOMAIN m THEN m.offset ELSE dflt.offset
    IN  Ok([family |-> IF "family" \in DOMAIN m THEN m.family ELSE dflt.family,
            style  |-> IF "style" \in DOMAIN m THEN m.style ELSE dflt.style,
            size   |-> IF "size" \in DOMAIN m THEN m.size ELSE dflt.size,
            offset |-> [x |-> IF "x" \in DOMAIN off THEN off.x ELSE dflt.offset.x,
                        y |-> IF "y" \in DOMAIN off THEN off.y ELSE dflt.offset.y]])

\* struct Font { family: String, style: String, size: f32, offset: FontOffset }
DeserializeFont(m) ==
    IF FontKeys \subseteq DOMAIN m
    THEN LET o == DeserializeFontOffset(m.offset)
         IN  IF o.ok
             THEN Ok([family |-> m.family, style |-> m.style,
                      size |-> m.size, offset |-> o.val])
             ELSE Err(o.err)
    ELSE IF "offset" \in DOMAIN m /\ ~DeserializeFontOffset(m.offset).ok
         THEN Err(DeserializeFontOffset(m.offset).err)
         ELSE Err("MissingField")

\* bool from its YAML scalar
DeserializeBool(s) == s = "true"

\* Variant of DeserializeConfig with #[serde(default)] on the struct only
\* when the mapping is empty: a mapping with some key needs all three
DeserializeConfig_AllOrNothing(m, os) ==
    IF DOMAIN m = {}
    THEN Ok([dpi |-> DefaultDpi, font |-> DefaultFont(os),
             render_timer |-> DefaultRenderTimer])
    ELSE IF DOMAIN m # SectionKeys THEN Err("MissingField")
    ELSE LET d == DeserializeDpi(m.dpi)
             f == DeserializeFont(m.font)
         IN  IF ~d.ok THEN Err(d.err)
             ELSE IF ~f.ok THEN Err(f.err)
             ELSE Ok([dpi |-> d.val, font |-> f.val,
                      render_timer |-> DeserializeBool(m.render_timer)])

\* struct Config, every field #[serde(default)]
DeserializeConfig(m, os) ==
    LET d == IF "dpi" \in DOMAIN m THEN DeserializeDpi(m.dpi) ELSE Ok(DefaultDpi)
        f == IF "font" \in DOMAIN m THEN DeserializeFont(m.font)
                                    ELSE Ok(DefaultFont(os))
        r == IF "render_timer" \in DOMAIN m THEN DeserializeBool(m.render_timer)
                                            ELSE DefaultRenderTimer
    IN  IF ~d.ok THEN Err(d.err)
        ELSE IF ~f.ok THEN Err(f.err)
        ELSE Ok([dpi |-> d.val, font |-> f.val, render_timer |-> r])

\* serde_yaml::from_str(&raw[..])
from_str(raw, os) ==
    IF ~raw.valid_yaml THEN Err("Syntax") ELSE DeserializeConfig(raw.map, os)

----------------------------------------------------------------------------
\* Accessors

font(c) == c.font

dpi(c) == c.dpi

render_timer(c) == c.render_timer

----------------------------------------------------------------------------
\* File access.  Each operator returns the Result in r and the filesystem
\* operations it performed, in order, in ops.

\* fs::File::open(path)
File_open(files, p) ==
    IF files[p].kind \in {"Absent", "Unopenable"}
    THEN [r |-> Err(files[p].err), ops |-> << <<"open", p>> >>]
    ELSE [r |-> Ok(p),             ops |-> << <<"open", p>> >>]

\* f.read_to_string(&mut contents)
read_to_string(files, p) ==
    IF files[p].kind = "Unreadable"
    THEN [r |-> Err(files[p].err),     ops |-> << <<"read", p>> >>]
    ELSE [r |-> Ok(files[p].contents), ops |-> << <<"read", p>> >>]

\* Variant of read_file that reports every failure to open as NotFound
read_file_OpenFailureIsNotFound(files, p) ==
    LET f == File_open(files, p)
    IN  IF ~f.r.ok
        THEN [r |-> Err(NotFound), ops |-> f.ops]
        ELSE LET c == read_to_string(files, p)
             IN  IF ~c.r.ok
                 THEN [r |-> Err(FromIoError(c.r.err)), ops |-> f.ops \o c.ops]
                 ELSE [r |-> Ok(c.r.val),               ops |-> f.ops \o c.ops]

\* Config::read_file
read_file(files, p) ==
    LET f == File_open(files, p)
    IN  IF ~f.r.ok
        THEN [r |-> Err(FromIoError(f.r.err)), ops |-> f.ops]
        ELSE LET c == read_to_string(files, p)
             IN  IF ~c.r.ok
                 THEN [r |-> Err(FromIoError(c.r.err)), ops |-> f.ops \o c.ops]
                 ELSE [r |-> Ok(c.r.val),               ops |-> f.ops \o c.ops]

\* Config::load_from
load_from(files, p, os) ==
    LET raw == read_file(files, p)
    IN  IF ~raw.r.ok
        THEN [r |-> Err(raw.r.err), ops |-> raw.ops]
        ELSE LET c == from_str(raw.r.val, os)
             IN  IF c.ok
                 THEN [r |-> Ok(c.val),               ops |-> raw.ops]
                 ELSE [r |-> Err(FromYamlError(c.err)), ops |-> raw.ops]

----------------------------------------------------------------------------
\* Config::load(), stepped

VARIABLES
    target_os,  \* the build target
    HOME,       \* the HOME environment variable
    fs,         \* state of each candidate path
    pc,         \* position in load()
    path,       \* local `path`
    alt_path,   \* local `alt_path`
    attempt,    \* value of Config::load_from(&path), the scrutinee of the match
    result,     \* value returned by load()
    fs_log      \* filesystem operations performed so far

vars == <<target_os, HOME, fs, pc, path, alt_path, attempt, result, fs_log>>

NoResult == [ok |-> FALSE, val |-> NoValue, err |-> NoError]

Init ==
    /\ target_os \in TargetOs
    /\ HOME \in HomeStates
    /\ fs \in [Paths -> FileStates]
    /\ pc = "env_var"
    /\ path = NoPath
    /\ alt_path = NoPath
    /\ attempt = NoResult
    /\ result = NoResult
    /\ fs_log = <<>>

\* Variant of EnvVarErr that goes on with a home directory looked up elsewhere
EnvVarErr_ProceedsWithDefault ==
    /\ pc = "env_var"
    /\ ~HOME.set
    /\ path' = PrimaryPath(HomeDir)
    /\ alt_path' = FallbackPath(HomeDir)
    /\ pc' = "load_from"
    /\ UNCHANGED <<target_os, HOME, fs, attempt, result, fs_log>>

\* let home = env::var("HOME")?  -- the Err branch of `?`
EnvVarErr ==
    /\ pc = "env_var"
    /\ ~HOME.set
    /\ result' = Err(FromVarError(HOME.err))
    /\ pc' = "done"
    /\ UNCHANGED <<target_os, HOME, fs, path, alt_path, attempt, fs_log>>

\* let home = env::var("HOME")?  -- the Ok branch, then the two PathBufs
EnvVarOk ==
    /\ pc = "env_var"
    /\ HOME.set
    /\ path' = PrimaryPath(HOME.value)
    /\ alt_path' = FallbackPath(HOME.value)
    /\ pc' = "load_from"
    /\ UNCHANGED <<target_os, HOME, fs, attempt, result, fs_log>>

\* Variant of LoadPrimary that loads from alt_path first
LoadPrimary_FallbackFirst ==
    /\ pc = "load_from"
    /\ LET l == load_from(fs, alt_path, target_os)
       IN  /\ attempt' = l.r
           /\ fs_log' = fs_log \o l.ops
    /\ pc' = "match"
    /\ UNCHANGED <<target_os, HOME, fs, path, alt_path, result>>

\* match Config::load_from(&path) { -- evaluation of the scrutinee
LoadPrimary ==
    /\ pc = "load_from"
    /\ LET l == load_from(fs, path, target_os)
       IN  /\ attempt' = l.r
           /\ fs_log' = fs_log \o l.ops
    /\ pc' = "match"
    /\ UNCHANGED <<target_os, HOME, fs, path, alt_path, result>>

\* Ok(c) => Ok(c)
MatchOk ==
    /\ pc = "match"
    /\ attempt.ok
    /\ result' = attempt
    /\ pc' = "done"
    /\ UNCHANGED <<target_os, HOME, fs, path, alt_path, attempt, fs_log>>

\* Variant of MatchNotFound that returns the primary attempt's NotFound
MatchNotFound_NoFallback ==
    /\ pc = "match"
    /\ ~attempt.ok
    /\ attempt.err = NotFound
    /\ result' = Err(attempt.err)
    /\ pc' = "done"
    /\ UNCHANGED <<target_os, HOME, fs, path, alt_path, attempt, fs_log>>

\* Err(e) => match e { Error::NotFound => Config::load_from(&alt_path)
MatchNotFound ==
    /\ pc = "match"
    /\ ~attempt.ok
    /\ attempt.err = NotFound
    /\ LET l == load_from(fs, alt_path, target_os)
       IN  /\ result' = l.r
           /\ fs_log' = fs_log \o l.ops
    /\ pc' = "done"
    /\ UNCHANGED <<target_os, HOME, fs, path, alt_path, attempt>>

\* Variant of MatchOther that tries the fallback after any failure
MatchOther_TriesFallback ==
    /\ pc = "match"
    /\ ~attempt.ok
    /\ attempt.err # NotFound
    /\ LET l == load_from(fs, alt_path, target_os)
       IN  /\ result' = l.r
           /\ fs_log' = fs_log \o l.ops
    /\ pc' = "done"
    /\ UNCHANGED <<target_os, HOME, fs, path, alt_path, attempt>>

\* Err(e) => match e { _ => Err(e)
MatchOther ==
    /\ pc = "match"
    /\ ~attempt.ok
    /\ attempt.err # NotFound
    /\ result' = Err(attempt.err)
    /\ pc' = "done"
    /\ UNCHANGED <<target_os, HOME, fs, path, alt_path, attempt, fs_log>>

Next ==
    \/ EnvVarErr
    \/ EnvVarOk
    \/ LoadPrimary
    \/ MatchOk
    \/ MatchNotFound
    \/ MatchOther

Spec == Init /\ [][Next]_vars

----------------------------------------------------------------------------
\* Vocabulary of the properties, stated on the environment and not through
\* the operators above.

Primary == PrimaryPath(HomeDir)

Fallback == FallbackPath(HomeDir)

PrimaryFile == fs[Primary]

FallbackFile == fs[Fallback]

Done == pc = "done"

\* some filesystem operation on p has been performed
Touched(p) == \E i \in 1..Len(fs_log) : fs_log[i][2] = p

Exists(f) == f.kind # "Absent"

FsError(f) == f.kind \in {"Unopenable", "Unreadable"}

\* every section present in the mapping has all its required keys
SectionsComplete(m) ==
    /\ "dpi" \in DOMAIN m => DOMAIN m.dpi = {"x", "y"}
    /\ "font" \in DOMAIN m =>
          /\ DOMAIN m.font = {"family", "style", "size", "offset"}
          /\ DOMAIN m.font.offset = {"x", "y"}

FontIncomplete(m) ==
    /\ "font" \in DOMAIN m
    /\ \/ DOMAIN m.font # {"family", "style", "size", "offset"}
       \/ DOMAIN m.font.offset # {"x", "y"}

IsDocument(f) == f.kind = "File" /\ f.contents.valid_yaml

ValidFile(f) == IsDocument(f) /\ SectionsComplete(f.contents.map)

InvalidFile(f) == f.kind = "File" /\ ~ValidFile(f)

\* the file the discovery order selects
Selected == IF Exists(PrimaryFile) THEN PrimaryFile ELSE FallbackFile

PlatformFont ==
    IF target_os = "linux"
    THEN [family |-> "DejaVu Sans Mono", style |-> "Book", size |-> 11,
          offset |-> [x |-> 2, y |-> -7]]
    ELSE [family |-> "Menlo", style |-> "Regular", size |-> 11,
          offset |-> [x |-> 0, y |-> 0]]

\* configuration c carries, section by section, what mapping m supplies and
\* the section's whole default where m has no such key
Resolves(c, m) ==
    /\ dpi(c) = IF "dpi" \in DOMAIN m THEN m.dpi ELSE [x |-> 96, y |-> 96]
    /\ font(c) = IF "font" \in DOMAIN m THEN m.font ELSE PlatformFont
    /\ render_timer(c) = IF "render_timer" \in DOMAIN m
                         THEN m.render_timer = "true" ELSE FALSE

TypeOK ==
    /\ target_os \in TargetOs
    /\ HOME \in HomeStates
    /\ fs \in [Paths -> FileStates]
    /\ pc \in {"env_var", "load_from", "match", "done"}
    /\ path \in Paths \cup {NoPath}
    /\ alt_path \in Paths \cup {NoPath}
    /\ Len(fs_log) <= 4

----------------------------------------------------------------------------
\* C1: when the primary path exists and the attempt on it fails (an I/O
\* error on open or read, or content that does not deserialize), load()
\* returns exactly that failure -- Io wrapping the file's error, or Yaml --
\* and no operation on the fallback path has been performed, whatever the
\* fallback file is.
C1_PrimaryFailurePropagated ==
    (Done /\ HOME.set /\ Exists(PrimaryFile) /\ ~ValidFile(PrimaryFile)) =>
        /\ ~result.ok
        /\ result = attempt
        /\ FsError(PrimaryFile) => result.err = Io(PrimaryFile.err)
        /\ InvalidFile(PrimaryFile) => result.err.tag = "Yaml"
        /\ ~Touched(Fallback)

C1_Witness ==
    /\ Done /\ HOME.set
    /\ InvalidFile(PrimaryFile)
    /\ ValidFile(FallbackFile)
    /\ result.err.tag = "Yaml"
    /\ ~Touched(Fallback)

\* C2: when the primary path does not exist, the result of load() is the
\* outcome of load_from(fallback path): the fallback's Configuration when it
\* is valid, NotFound when it is absent, Io when it cannot be opened or read,
\* Yaml when it does not deserialize; the only trace of the primary attempt
\* is its failed open.
C2_FallbackOutcomeReturned ==
    (Done /\ HOME.set /\ ~Exists(PrimaryFile)) =>
        /\ result = load_from(fs, Fallback, target_os).r
        /\ ValidFile(FallbackFile) =>
              result.ok /\ Resolves(result.val, FallbackFile.contents.map)
        /\ ~Exists(FallbackFile) => result = Err(NotFound)
        /\ FsError(FallbackFile) => result = Err(Io(FallbackFile.err))
        /\ InvalidFile(FallbackFile) => ~result.ok /\ result.err.tag = "Yaml"
        /\ Head(fs_log) = <<"open", Primary>>
        /\ \A i \in 2..Len(fs_log) : fs_log[i][2] = Fallback

C2_Witness ==
    /\ Done /\ HOME.set
    /\ ~Exists(PrimaryFile)
    /\ ValidFile(FallbackFile)
    /\ DOMAIN FallbackFile.contents.map = {"dpi", "font", "render_timer"}
    /\ result.ok
    /\ font(result.val).family = "Hack"

\* C3: with HOME set and neither candidate path existing, load() fails with
\* exactly Error::NotFound.
C3_NeitherExistsNotFound ==
    (Done /\ HOME.set /\ ~Exists(PrimaryFile) /\ ~Exists(FallbackFile)) =>
        /\ ~result.ok
        /\ result.err = NotFound
        /\ result.err.tag \notin {"Io", "Yaml", "ReadingEnvHome"}

C3_Witness ==
    /\ Done /\ HOME.set
    /\ ~Exists(PrimaryFile) /\ ~Exists(FallbackFile)
    /\ result = Err(NotFound)
    /\ fs_log = << <<"open", Primary>>, <<"open", Fallback>> >>

\* C4: load() ends in Error::NotFound only if neither candidate path exists.
C4_NotFoundOnlyIfBothAbsent ==
    (Done /\ ~result.ok /\ result.err.tag = "NotFound") =>
        /\ ~Exists(PrimaryFile)
        /\ ~Exists(FallbackFile)

C4_Witness ==
    /\ Done
    /\ ~result.ok /\ result.err.tag = "NotFound"
    /\ attempt = Err(NotFound)
    /\ Len(fs_log) = 2
    /\ PrimaryFile.kind = "Absent" /\ FallbackFile.kind = "Absent"

\* C5: when HOME is unset or not valid text, load() fails with
\* ReadingEnvHome wrapping the lookup failure, and at no point of the call
\* is there a filesystem operation on either candidate path.
C5_NoHomeNoFilesystem ==
    ~HOME.set =>
        /\ fs_log = <<>>
        /\ pc \in {"env_var", "done"}
        /\ Done => /\ result = Err(ReadingEnvHome(HOME.err))
                   /\ cause(result.err) = HOME.err
                   /\ HOME.err \in {"NotPresent", "NotUnicode"}

C5_Witness ==
    /\ Done
    /\ ~HOME.set /\ HOME.err = "NotUnicode"
    /\ ValidFile(PrimaryFile) /\ ValidFile(FallbackFile)
    /\ result.err.tag = "ReadingEnvHome"
    /\ fs_log = <<>>

\* C6: the first filesystem operation of load() is the open of the primary
\* path, any operation on the fallback path comes after it, and when the
\* primary path exists the fallback path is never touched and the result is
\* what it would be with no fallback file at all.
C6_PrimaryFirstAndWins ==
    /\ fs_log # <<>> => Head(fs_log) = <<"open", Primary>>
    /\ (HOME.set /\ Exists(PrimaryFile)) =>
          /\ ~Touched(Fallback)
          /\ Done =>
               /\ result = attempt
               /\ result =
                    load_from([fs EXCEPT ![Fallback].kind = "Absent"],
                              Primary, target_os).r
               /\ ValidFile(PrimaryFile) =>
                     result.ok /\ Resolves(result.val, PrimaryFile.contents.map)
               /\ ~ValidFile(PrimaryFile) => ~result.ok

C6_Witness ==
    /\ Done /\ HOME.set
    /\ ValidFile(PrimaryFile) /\ ValidFile(FallbackFile)
    /\ PrimaryFile.contents # FallbackFile.contents
    /\ "dpi" \in DOMAIN PrimaryFile.contents.map
    /\ "dpi" \notin DOMAIN FallbackFile.contents.map
    /\ result.ok /\ dpi(result.val) = [x |-> 110, y |-> 120]
    /\ ~Touched(Fallback)

C8_IncompleteFontIsYamlError ==
    (Done /\ HOME.set /\ IsDocument(Selected)
          /\ FontIncomplete(Selected.contents.map)) =>
        /\ ~result.ok
        /\ result.err.tag = "Yaml"

C8_Witness ==
    /\ Done /\ HOME.set
    /\ IsDocument(PrimaryFile)
    /\ "font" \in DOMAIN PrimaryFile.contents.map
    /\ DOMAIN PrimaryFile.contents.map.font = {"family", "style", "offset"}
    /\ "dpi" \notin DOMAIN PrimaryFile.contents.map
    /\ result = Err(Yaml("MissingField"))

\* C9: for a file in which every present section is complete, each of dpi,
\* font and render_timer in the loaded Configuration is the supplied value
\* when its section is present and the section's whole default when it is
\* absent, whatever the other two sections are.
C9_SectionsIndependent ==
    (Done /\ HOME.set /\ ValidFile(Selected)) =>
        /\ result.ok
        /\ Resolves(result.val, Selected.contents.map)

C9_Witness ==
    /\ Done /\ HOME.set
    /\ ValidFile(PrimaryFile)
    /\ DOMAIN PrimaryFile.contents.map = {"dpi", "render_timer"}
    /\ PrimaryFile.contents.map.render_timer = "true"
    /\ result.ok
    /\ dpi(result.val) = [x |-> 110, y |-> 120]
    /\ render_timer(result.val) = TRUE
    /\ font(result.val) = PlatformFont

\* C10: a filesystem error on open or read, in either attempt, becomes
\* Error::NotFound without a cause when its kind is NotFound and Error::Io
\* wrapping that error otherwise; it never becomes Error::Yaml or a success.
C10_IoErrorClassifiedByKind ==
    /\ (pc \in {"match", "done"} /\ HOME.set) =>
          /\ ~Exists(PrimaryFile) =>
                attempt = Err(NotFound) /\ cause(attempt.err) = "None"
          /\ FsError(PrimaryFile) =>
                /\ attempt = Err(Io(PrimaryFile.err))
                /\ cause(attempt.err) = PrimaryFile.err
    /\ (Done /\ HOME.set /\ ~Exists(PrimaryFile)) =>
          /\ ~Exists(FallbackFile) =>
                result = Err(NotFound) /\ cause(result.err) = "None"
          /\ FsError(FallbackFile) =>
                /\ result = Err(Io(FallbackFile.err))
                /\ cause(result.err) = FallbackFile.err

C10_Witness ==
    /\ Done /\ HOME.set
    /\ ~Exists(PrimaryFile)
    /\ FallbackFile.kind = "Unreadable" /\ FallbackFile.err = "InvalidData"
    /\ result = Err(Io("InvalidData"))
    /\ Len(fs_log) = 3

====
